---- MODULE Spec2Model ----
(***************************************************************************)
(* Verification model of utils/metrics.py: the IoU matching shared by      *)
(* ConfusionMatrix.process_batch and OD_AUCROC.process_batch, the          *)
(* confusion-matrix aggregation, the ROC/FROC accumulators of OD_AUCROC,   *)
(* and ap_per_class / compute_ap.                                          *)
(*                                                                         *)
(* Scores, confidences and IoU values are integers in hundredths           *)
(* (0.45 is 45).  Indices are 1-based.  A match is <<label, det, iou>>.    *)
(***************************************************************************)
EXTENDS Integers, Sequences, FiniteSets, TLC

VARIABLES
    tie,            \* sort kind the numpy build uses for argsort ties
    pc,             \* position: last operation that ran
    iou_thres,      \* self.iou_thres
    dims,           \* <<number of labels, number of detections>> given to box_iou
    iou,            \* iou[<<l, d>>]: result of general.box_iou
    matches,        \* local `matches` of process_batch
    conf,           \* ConfusionMatrix.conf
    gt_classes,     \* local gt_classes of the last process_batch call
    detection_classes,  \* local detection_classes (after the confidence filter)
    matrix,         \* ConfusionMatrix.matrix of the first aggregator
    matrixB,        \* ConfusionMatrix.matrix of a second aggregator
    fed,            \* the images given to the first aggregator, in call order
    orderB,         \* indices of fed given to the second aggregator, in call order
    nc,             \* OD_AUCROC.nc
    malignant_cls_th,   \* OD_AUCROC.malignant_cls_th
    roc_lesion,     \* (score, label) pairs given to self.roc_lesion
    roc_image,      \* (score, label) pairs given to self.roc_image
    roc_image_noloc,    \* (score, label) pairs given to self.roc_image_noloc
    markers_in_normal_image,    \* OD_AUCROC.markers_in_normal_image
    detection_probs,    \* local detection_probs of the last process_batch call
    nl,             \* local nl of the last process_batch call
    result,         \* outcome of __init__ or of the last score() call
    hist,           \* history: per image processed, its number of malignant
                    \* labels (nl) and the scores of its malignant detections
    tp,             \* ap_per_class argument tp: per prediction, a 0/1 flag per IoU column
    pred_conf,      \* ap_per_class argument conf
    pred_cls,       \* ap_per_class argument pred_cls
    target_cls,     \* ap_per_class argument target_cls
    unique_classes, \* returned class ids
    ap              \* returned ap[ci][j], each a fraction <<numerator, denominator>>

matchVars == <<tie, pc, iou_thres, dims, iou, matches>>
cmVars == <<conf, gt_classes, detection_classes, matrix, matrixB, fed, orderB>>
rocVars == <<nc, malignant_cls_th, roc_lesion, roc_image, roc_image_noloc,
             markers_in_normal_image, detection_probs, nl, result, hist>>
apVars == <<tp, pred_conf, pred_cls, target_cls, unique_classes, ap>>
vars == <<matchVars, cmVars, rocVars, apVars>>

----------------------------------------------------------------------------
(* Bounds of the model *)
MaxCells == 6       \* labels * detections of an IoU matrix given to the matching
MaxLabels == 2
MaxDets == 2
MaxPairs == 2       \* labels * detections of one image given to an aggregator
MaxImages == 2      \* images given to one aggregator
MaxNc == 5          \* class counts tried at OD_AUCROC construction: 0..MaxNc
MaxPreds == 1       \* predictions given to ap_per_class
MaxTargets == 2     \* labels given to ap_per_class
NumCols == 1        \* IoU-threshold columns of tp (tp.shape[1])

\* defaults of ConfusionMatrix.__init__
NC == 2
DefaultConf == 25
DefaultIouThres == 45
CMIouVals == {30, 60}
ConfVals == {10, 50}

\* defaults of OD_AUCROC.__init__
ROCIouThres == 50
FmImgThs == 100
ClassModifier == 1
ROCIouVals == {30, 60}
ProbVals == {30, 70}
Raise == 0 - 1      \* marks a raised exception where a number is returned

\* ap_per_class
APGrid == 100       \* intervals of np.linspace(0, 1, 101)
APClasses == {0, 1}
APConfVals == {40, 80}

IouVals == {30, 60, 70, 80}
IouThresholds == {45, 65}
SortKinds == {"stable", "unstable"}

----------------------------------------------------------------------------
(* Generic helpers *)
Range(s) == {s[i] : i \in 1..Len(s)}

Max(S) == CHOOSE x \in S : \A y \in S : y <= x
Min(S) == CHOOSE x \in S : \A y \in S : x <= y

\* sequence of the elements of a set of integers, ascending
RECURSIVE SetToSeqAsc(_)
SetToSeqAsc(S) ==
    IF S = {} THEN <<>> ELSE <<Min(S)>> \o SetToSeqAsc(S \ {Min(S)})

\* sum of f over the indices in S
RECURSIVE SumOver(_, _)
SumOver(f, S) ==
    IF S = {} THEN 0
    ELSE LET c == CHOOSE x \in S : TRUE IN f[c] + SumOver(f, S \ {c})

----------------------------------------------------------------------------
(* The matching of process_batch *)

\* torch.where(iou > thres) with the IoU column: row-major order
RECURSIVE CandidatesFrom(_, _, _, _, _)
CandidatesFrom(io, M, N, thres, k) ==
    IF k > M * N THEN <<>>
    ELSE LET l == ((k - 1) \div N) + 1
             d == ((k - 1) % N) + 1
         IN  (IF io[<<l, d>>] > thres THEN << <<l, d, io[<<l, d>>]>> >> ELSE <<>>)
             \o CandidatesFrom(io, M, N, thres, k + 1)

Candidates(io, M, N, thres) == CandidatesFrom(io, M, N, thres, 1)

\* matches[matches[:, 2].argsort()[::-1]]: descending by IoU.  argsort is
\* ascending; a stable sort reversed leaves ties in reverse input order, the
\* other sort kind is modelled as leaving them in input order.
SortedBefore(s, i, j, kind) ==
    \/ s[i][3] > s[j][3]
    \/ /\ s[i][3] = s[j][3]
       /\ IF kind = "stable" THEN i > j ELSE i < j

ArgsortDesc(s, kind) ==
    [k \in 1..Len(s) |->
        s[CHOOSE i \in 1..Len(s) :
            Cardinality({j \in 1..Len(s) : SortedBefore(s, j, i, kind)}) = k - 1]]

\* np.unique keeping the last occurrence of each key instead of the first
UniqueLast(s, col) ==
    LET keys == SetToSeqAsc({s[i][col] : i \in 1..Len(s)})
    IN  [k \in 1..Len(keys) |->
            s[Max({i \in 1..Len(s) : s[i][col] = keys[k]})]]

\* matches[np.unique(matches[:, col], return_index=True)[1]]: one row per
\* distinct key, the first occurrence, rows ordered by ascending key
UniqueFirst(s, col) ==
    LET keys == SetToSeqAsc({s[i][col] : i \in 1..Len(s)})
    IN  [k \in 1..Len(keys) |->
            s[Min({i \in 1..Len(s) : s[i][col] = keys[k]})]]

\* the same with the second pass deduplicating the detection column again
TwoPassMatches_SameColumn(io, M, N, thres, kind) ==
    LET x == Candidates(io, M, N, thres)
    IN  IF Len(x) > 1
        THEN UniqueFirst(ArgsortDesc(UniqueFirst(ArgsortDesc(x, kind), 2), kind), 2)
        ELSE x

\* lines 143-152
TwoPassMatches(io, M, N, thres, kind) ==
    LET x == Candidates(io, M, N, thres)
    IN  IF Len(x) > 0
        THEN IF Len(x) > 1
             THEN LET s1 == ArgsortDesc(x, kind)
                      u1 == UniqueFirst(s1, 2)
                      s2 == ArgsortDesc(u1, kind)
                  IN  UniqueFirst(s2, 1)
             ELSE x
        ELSE <<>>

----------------------------------------------------------------------------
(* Specification SpecMatch: the matching as a function of the IoU matrix *)

IouMatrices(M, N) == [(1..M) \X (1..N) -> IouVals]

CMUnused ==
    /\ conf = 0
    /\ gt_classes = <<>>
    /\ detection_classes = <<>>
    /\ matrix = <<>>
    /\ matrixB = <<>>
    /\ fed = <<>>
    /\ orderB = <<>>

ROCUnused ==
    /\ nc = 0
    /\ malignant_cls_th = 0
    /\ roc_lesion = <<>>
    /\ roc_image = <<>>
    /\ roc_image_noloc = <<>>
    /\ markers_in_normal_image = <<>>
    /\ detection_probs = <<>>
    /\ nl = 0
    /\ result = [status |-> "none", froc_lesion_fm_img |-> <<>>,
                 partial_fm_img_idx |-> <<>>]
    /\ hist = <<>>

APUnused ==
    /\ tp = <<>>
    /\ pred_conf = <<>>
    /\ pred_cls = <<>>
    /\ target_cls = <<>>
    /\ unique_classes = <<>>
    /\ ap = <<>>

InitMatch ==
    /\ CMUnused
    /\ ROCUnused
    /\ APUnused
    /\ tie \in SortKinds
    /\ pc = "start"
    /\ iou_thres \in IouThresholds
    /\ \E M \in 0..MaxCells, N \in 0..MaxCells :
          /\ M * N <= MaxCells
          /\ dims = <<M, N>>
          /\ iou \in IouMatrices(M, N)
    /\ matches = <<>>

Match ==
    /\ pc = "start"
    /\ matches' = TwoPassMatches(iou, dims[1], dims[2], iou_thres, tie)
    /\ pc' = "matched"
    /\ UNCHANGED <<tie, iou_thres, dims, iou, cmVars, rocVars, apVars>>

NextMatch == Match

SpecMatch == InitMatch /\ [][NextMatch]_vars

----------------------------------------------------------------------------
(* Properties of the matching *)

MatchSet == Range(matches)
CandSet == Range(Candidates(iou, dims[1], dims[2], iou_thres))

Injective(S) ==
    \A a \in S, b \in S : (a[1] = b[1] \/ a[2] = b[2]) => a = b

\* C2: the matches left by the two-pass sort and dedup form a partial
\* injective matching (no label index and no detection index occurs twice),
\* every match is a pair of the IoU matrix whose IoU is strictly greater than
\* iou_thres, and there is no match when there are no labels or no detections.
C2_PartialInjectiveMatching ==
    pc = "matched" =>
        /\ Injective(MatchSet)
        /\ Len(matches) = Cardinality(MatchSet)
        /\ \A m \in MatchSet :
              /\ m[1] \in 1..dims[1]
              /\ m[2] \in 1..dims[2]
              /\ m[3] = iou[<<m[1], m[2]>>]
              /\ m[3] > iou_thres
        /\ (dims[1] = 0 \/ dims[2] = 0) => matches = <<>>

\* the dedup removed candidates and two matches are left
C2_Witness ==
    /\ pc = "matched"
    /\ Cardinality(CandSet) > 2
    /\ Len(matches) = 2

\* candidate pairs have pairwise distinct IoU values
DistinctIou(S) == \A a \in S, b \in S : a[3] = b[3] => a = b

\* iterative greedy bipartite matching: visit the pairs of S in descending
\* IoU order, accept a pair iff its label and its detection are both unseen
RECURSIVE Greedy(_, _, _)
Greedy(S, seenL, seenD) ==
    IF S = {} THEN {}
    ELSE LET top == CHOOSE a \in S : \A b \in S : b[3] <= a[3]
         IN  IF top[1] \notin seenL /\ top[2] \notin seenD
             THEN {top} \cup Greedy(S \ {top}, seenL \cup {top[1]}, seenD \cup {top[2]})
             ELSE Greedy(S \ {top}, seenL, seenD)

\* the candidates that are the highest-IoU pair of their detection
BestOfDetection(S) ==
    {a \in S : \A b \in S : b[2] = a[2] => b[3] <= a[3]}

\* C3 as stated: with pairwise distinct IoU values the two-pass dedup equals
\* greedy bipartite matching over all candidate pairs above the threshold.
C3_EqualsGreedy ==
    (pc = "matched" /\ DistinctIou(CandSet)) =>
        MatchSet = Greedy(CandSet, {}, {})

\* C3 amended: with pairwise distinct IoU values the two-pass dedup equals
\* greedy bipartite matching over the candidate pairs that are the
\* highest-IoU pair of their detection (a pair that loses its detection to a
\* better label is dropped before labels are resolved, even when the better
\* label ends up matched elsewhere).
C3_EqualsGreedyOverDetectionBest ==
    (pc = "matched" /\ DistinctIou(CandSet)) =>
        MatchSet = Greedy(BestOfDetection(CandSet), {}, {})

\* distinct IoUs, both passes removed a candidate
C3_Witness ==
    /\ pc = "matched"
    /\ DistinctIou(CandSet)
    /\ Cardinality(CandSet) = 3
    /\ Cardinality(BestOfDetection(CandSet)) = 2
    /\ Len(matches) = 1

----------------------------------------------------------------------------
(* ConfusionMatrix *)

SeqsUpTo(S, n) == UNION {[1..k -> S] : k \in 0..n}

Classes(n) == 0..(n - 1)

\* one image: labels (class per box), detections (<<conf, class>> per box)
\* and the IoU of every label box with every detection box
CMImages ==
    UNION {
        {[labels |-> ls, dets |-> ds, iou |-> io] :
            io \in [(1..Len(ls)) \X (1..Len(ds)) -> CMIouVals]} :
        <<ls, ds>> \in {p \in SeqsUpTo(Classes(NC), MaxLabels)
                              \X SeqsUpTo(ConfVals \X Classes(NC), MaxDets) :
                          Len(p[1]) * Len(p[2]) <= MaxPairs}}

\* np.zeros((nc + 1, nc + 1)), line 123
ZeroMatrix(n) == [c \in (0..n) \X (0..n) |-> 0]

\* detections[detections[:, 4] > self.conf]: indices that survive, ascending
Surviving(ds, cf) == SetToSeqAsc({k \in 1..Len(ds) : ds[k][1] > cf})

\* box_iou(labels, surviving detections)
FilteredIou(img, keep) ==
    [p \in (1..Len(img.labels)) \X (1..Len(keep)) |-> img.iou[<<p[1], keep[p[2]]>>]]

\* the loop over the labels reading the transposed cell when it increments
RECURSIVE LabelLoop_Transposed(_, _, _, _, _, _)
LabelLoop_Transposed(mx, gts, dcs, ms, n, i) ==
    IF i > Len(gts) THEN mx
    ELSE LET j == {k \in 1..Len(ms) : ms[k][1] = i}
             gc == gts[i]
             cell == IF Len(ms) > 0 /\ Cardinality(j) = 1
                     THEN <<gc, dcs[ms[CHOOSE k \in j : TRUE][2]]>>
                     ELSE <<n, gc>>
         IN  LabelLoop_Transposed([mx EXCEPT ![cell] = mx[<<cell[2], cell[1]>>] + 1],
                                  gts, dcs, ms, n, i + 1)

\* lines 156-161: the loop over the labels
RECURSIVE LabelLoop(_, _, _, _, _, _)
LabelLoop(mx, gts, dcs, ms, n, i) ==
    IF i > Len(gts) THEN mx
    ELSE LET j == {k \in 1..Len(ms) : ms[k][1] = i}
             gc == gts[i]
             cell == IF Len(ms) > 0 /\ Cardinality(j) = 1
                     THEN <<gc, dcs[ms[CHOOSE k \in j : TRUE][2]]>>
                     ELSE <<n, gc>>
         IN  LabelLoop([mx EXCEPT ![cell] = @ + 1], gts, dcs, ms, n, i + 1)

\* lines 163-166: the loop over the detections, entered only when n
RECURSIVE DetectionLoop(_, _, _, _, _)
DetectionLoop(mx, dcs, ms, n, i) ==
    IF i > Len(dcs) THEN mx
    ELSE LET claimed == \E k \in 1..Len(ms) : ms[k][2] = i
         IN  DetectionLoop(IF claimed THEN mx ELSE [mx EXCEPT ![<<dcs[i], n>>] = @ + 1],
                           dcs, ms, n, i + 1)

\* lines 154-166
UpdateMatrix(mx, gts, dcs, ms, n) ==
    LET m1 == LabelLoop(mx, gts, dcs, ms, n, 1)
    IN  IF Len(ms) > 0 THEN DetectionLoop(m1, dcs, ms, n, 1) ELSE m1

\* ConfusionMatrix.process_batch(detections, labels) on the aggregator whose
\* matrix is mx; the locals of the call are left in the state
process_batch(img, mx, mxNew) ==
    LET keep == Surviving(img.dets, conf)
        dcs == [k \in 1..Len(keep) |-> img.dets[keep[k]][2]]
        io == FilteredIou(img, keep)
        ms == TwoPassMatches(io, Len(img.labels), Len(keep), iou_thres, tie)
    IN  /\ gt_classes' = img.labels
        /\ detection_classes' = dcs
        /\ dims' = <<Len(img.labels), Len(keep)>>
        /\ iou' = io
        /\ matches' = ms
        /\ mxNew = UpdateMatrix(mx, img.labels, dcs, ms, NC)

InitCM ==
    /\ tie \in SortKinds
    /\ pc = "constructed"
    /\ iou_thres = DefaultIouThres
    /\ conf = DefaultConf
    /\ dims = <<0, 0>>
    /\ iou = <<>>
    /\ matches = <<>>
    /\ gt_classes = <<>>
    /\ detection_classes = <<>>
    /\ matrix = ZeroMatrix(NC)
    /\ matrixB = ZeroMatrix(NC)
    /\ fed = <<>>
    /\ orderB = <<>>
    /\ ROCUnused
    /\ APUnused

\* a new image is given to the first aggregator
ProcessBatchA ==
    /\ Len(fed) < MaxImages
    /\ \E img \in CMImages :
          /\ process_batch(img, matrix, matrix')
          /\ fed' = Append(fed, img)
    /\ pc' = "A"
    /\ UNCHANGED <<tie, iou_thres, conf, matrixB, orderB, rocVars, apVars>>

\* the second aggregator is given one of the same images, in any order
ProcessBatchB ==
    /\ \E k \in (1..Len(fed)) \ Range(orderB) :
          /\ process_batch(fed[k], matrixB, matrixB')
          /\ orderB' = Append(orderB, k)
    /\ pc' = "B"
    /\ UNCHANGED <<tie, iou_thres, conf, matrix, fed, rocVars, apVars>>

NextCM == ProcessBatchA \/ ProcessBatchB

SpecCM == InitCM /\ [][NextCM]_vars

----------------------------------------------------------------------------
(* OD_AUCROC *)

\* lines 220-227 with the else branch falling through to the one-class scheme
MalignantClsTh_NoRaise(n) ==
    IF n = 4 THEN 2
    ELSE IF n = 2 THEN 1
    ELSE 0

\* lines 220-227: the malignant class threshold, or the ValueError
MalignantClsTh(n) ==
    IF n = 4 THEN 2
    ELSE IF n = 2 THEN 1
    ELSE IF n = 1 THEN 0
    ELSE Raise

\* classes given to the engine: the two classes on either side of the
\* malignant threshold, among the nc classes
ClassSample(n, th) == {c \in Classes(n) : c = th - 1 \/ c = th}

\* detections[detections[:, 5] >= self.malignant_cls_th]: surviving indices
MalDetections(ds, th) == SetToSeqAsc({k \in 1..Len(ds) : ds[k][2] >= th})

\* the label filter with > in place of >=
MalLabels_Strict(ls, th) == SetToSeqAsc({k \in 1..Len(ls) : ls[k] > th})

\* labels[labels[:, 0] >= self.malignant_cls_th]: surviving indices
MalLabels(ls, th) == SetToSeqAsc({k \in 1..Len(ls) : ls[k] >= th})

MaxOf(a, b) == IF a >= b THEN a ELSE b

\* torch.max(detection_probs, 0): only called on a non-empty tensor
TorchMax(probs) == Max(Range(probs))

\* lines 273-282 with the commented-out dedup of lines 276-280 enabled
ROCMatches_Dedup(io, M, N, thres) == TwoPassMatches(io, M, N, thres, "stable")

\* lines 273-282: every pair above the threshold, no dedup
ROCMatches(io, M, N, thres) == Candidates(io, M, N, thres)

\* lines 292-296: best score among the matches js (match indices, in order)
\* of one label; returns <<best_score, image_best_score>>
RECURSIVE BestScoreLoop(_, _, _, _, _, _, _)
BestScoreLoop(js, ms, dcs, gc, probs, best, imageBest) ==
    IF js = <<>> THEN <<best, imageBest>>
    ELSE LET d == ms[Head(js)][2]
         IN  IF dcs[d] = gc
             THEN LET b == MaxOf(best, probs[d])
                  IN  BestScoreLoop(Tail(js), ms, dcs, gc, probs, b, MaxOf(imageBest, b))
             ELSE BestScoreLoop(Tail(js), ms, dcs, gc, probs, best, imageBest)

\* lines 288-299: returns <<pairs appended to roc_lesion, image_best_score>>
RECURSIVE LesionLoop(_, _, _, _, _, _, _)
LesionLoop(gts, dcs, ms, probs, i, out, imageBest) ==
    IF i > Len(gts) THEN <<out, imageBest>>
    ELSE LET js == SetToSeqAsc({k \in 1..Len(ms) : ms[k][1] = i})
             gc == gts[i]
         IN  IF Len(ms) > 0 /\ Len(js) > 0 /\ \E k \in Range(js) : dcs[ms[k][2]] = gc
             THEN LET r == BestScoreLoop(js, ms, dcs, gc, probs, 0, imageBest)
                  IN  LesionLoop(gts, dcs, ms, probs, i + 1,
                                 Append(out, <<r[1], gc>>), r[2])
             ELSE LesionLoop(gts, dcs, ms, probs, i + 1,
                             Append(out, <<0, gc>>), imageBest)

Repeat(x, n) == [k \in 1..n |-> x]

\* line 250 / 261: what is appended to markers_in_normal_image, recording
\* only the maximum score
NormalMarkers_MaxOnly(probs) == IF probs = <<>> THEN <<>> ELSE <<TorchMax(probs)>>

\* line 250 / 261: self.markers_in_normal_image.append(detection_probs)
NormalMarkers(probs) == probs

\* history of an image: how many of its labels are malignant
MalignantLabelCount(labels, th) ==
    Cardinality({k \in 1..Len(labels) : labels[k] >= th})

\* history of an image: the scores of its malignant detections, in order
RECURSIVE MalignantScores(_, _)
MalignantScores(ds, th) ==
    IF ds = <<>> THEN <<>>
    ELSE (IF Head(ds)[2] >= th THEN <<Head(ds)[1]>> ELSE <<>>)
         \o MalignantScores(Tail(ds), th)

InitROC ==
    /\ tie = "stable"
    /\ pc = "new"
    /\ iou_thres = ROCIouThres
    /\ dims = <<0, 0>>
    /\ iou = <<>>
    /\ matches = <<>>
    /\ CMUnused
    /\ nc = 0
    /\ malignant_cls_th = Raise
    /\ roc_lesion = <<>>
    /\ roc_image = <<>>
    /\ roc_image_noloc = <<>>
    /\ markers_in_normal_image = <<>>
    /\ detection_probs = <<>>
    /\ nl = 0
    /\ result = [status |-> "none", froc_lesion_fm_img |-> <<>>,
                 partial_fm_img_idx |-> <<>>]
    /\ hist = <<>>
    /\ APUnused

\* OD_AUCROC.__init__(nc), lines 204-227
OD_AUCROC_init ==
    /\ pc = "new"
    /\ \E n \in 0..MaxNc :
          /\ nc' = n
          /\ malignant_cls_th' = MalignantClsTh(n)
          /\ pc' = IF MalignantClsTh(n) = Raise THEN "ValueError" ELSE "constructed"
    /\ UNCHANGED <<tie, iou_thres, dims, iou, matches, cmVars, roc_lesion, roc_image,
                   roc_image_noloc, markers_in_normal_image, detection_probs, nl,
                   result, hist, apVars>>

\* OD_AUCROC.process_batch(detections, labels), lines 229-302
OD_AUCROC_process_batch ==
    /\ pc \in {"constructed", "processed"}
    /\ Len(hist) < MaxImages
    /\ \E labels \in SeqsUpTo(ClassSample(nc, malignant_cls_th), MaxLabels),
          detections \in SeqsUpTo(ProbVals \X ClassSample(nc, malignant_cls_th), MaxDets) :
          LET md == MalDetections(detections, malignant_cls_th)
              ml == MalLabels(labels, malignant_cls_th)
              probs == [k \in 1..Len(md) |-> detections[md[k]][1]]
              n_l == Len(ml)
              gts == [k \in 1..Len(ml) |-> 0 + ClassModifier]
              dcs == [k \in 1..Len(md) |-> 0 + ClassModifier]
          IN  \* general.box_iou(mal_labels, mal_detections), line 271
              \E io \in [(1..Len(ml)) \X (1..Len(md)) -> ROCIouVals] :
              LET ms == ROCMatches(io, Len(ml), Len(md), iou_thres)
                  r == LesionLoop(gts, dcs, ms, probs, 1, <<>>, 0)
              IN
              /\ detection_probs' = probs
              /\ nl' = n_l
              /\ hist' = Append(hist,
                    [nl |-> MalignantLabelCount(labels, malignant_cls_th),
                     probs |-> MalignantScores(detections, malignant_cls_th)])
              /\ IF Len(md) = 0
                 THEN /\ IF n_l = 0
                         THEN /\ markers_in_normal_image' =
                                    Append(markers_in_normal_image, NormalMarkers(probs))
                              /\ roc_lesion' = Append(roc_lesion, <<0, 0>>)
                              /\ roc_image' = Append(roc_image, <<0, 0>>)
                              /\ roc_image_noloc' = Append(roc_image_noloc, <<0, 0>>)
                         ELSE /\ roc_lesion' = roc_lesion \o Repeat(<<0, 1>>, n_l)
                              /\ roc_image' = Append(roc_image, <<0, 1>>)
                              /\ roc_image_noloc' = Append(roc_image_noloc, <<0, 1>>)
                              /\ UNCHANGED markers_in_normal_image
                      /\ UNCHANGED <<dims, iou, matches>>
                 ELSE IF n_l = 0
                 THEN /\ markers_in_normal_image' =
                            Append(markers_in_normal_image, NormalMarkers(probs))
                      /\ roc_lesion' = Append(roc_lesion, <<TorchMax(probs), 0>>)
                      /\ roc_image' = Append(roc_image, <<TorchMax(probs), 0>>)
                      /\ roc_image_noloc' = Append(roc_image_noloc, <<TorchMax(probs), 0>>)
                      /\ UNCHANGED <<dims, iou, matches>>
                 ELSE /\ roc_image_noloc' = Append(roc_image_noloc, <<TorchMax(probs), 1>>)
                      /\ dims' = <<Len(ml), Len(md)>>
                      /\ iou' = io
                      /\ matches' = ms
                      /\ roc_lesion' = roc_lesion \o r[1]
                      /\ roc_image' = Append(roc_image, <<r[2], 1>>)
                      /\ UNCHANGED markers_in_normal_image
    /\ pc' = "processed"
    /\ UNCHANGED <<tie, iou_thres, cmVars, nc, malignant_cls_th, result, apVars>>

\* torch.cat(self.markers_in_normal_image)
RECURSIVE Cat(_)
Cat(ts) == IF ts = <<>> THEN <<>> ELSE Head(ts) \o Cat(Tail(ts))

RECURSIVE SetToSeqDesc(_)
SetToSeqDesc(S) ==
    IF S = {} THEN <<>> ELSE <<Max(S)>> \o SetToSeqDesc(S \ {Max(S)})

\* thresholds returned by torchmetrics ROC.compute() on a non-empty
\* accumulator: the distinct scores, descending, after a leading max + 1
ROCThresholds(acc) ==
    LET scores == {acc[k][1] : k \in 1..Len(acc)}
    IN  <<Max(scores) + 100>> \o SetToSeqDesc(scores)

\* lines 344-351.  Each entry is <<markers above the threshold,
\* n_normal_images>>, the fraction avg_fm_image.  torch.cat of an empty list
\* and torch.stack of an empty list raise.
froc_curve(thresholds) ==
    IF thresholds = <<>> \/ markers_in_normal_image = <<>>
    THEN [raised |-> TRUE, fm |-> <<>>]
    ELSE LET markers == Cat(markers_in_normal_image)
             n_normal_images == Len(markers_in_normal_image)
         IN  [raised |-> FALSE,
              fm |-> [k \in 1..Len(thresholds) |->
                        <<Cardinality({i \in 1..Len(markers) : markers[i] > thresholds[k]}),
                          n_normal_images>>]]

\* ROC.compute() then froc_curve for one accumulator (lines 306-308, 317-320,
\* 327-330).  emptyRaises: whether the library raises on an accumulator
\* that was never updated, or returns empty curves.
CurveOf(acc, emptyRaises) ==
    IF acc = <<>>
    THEN IF emptyRaises THEN [raised |-> TRUE, fm |-> <<>>] ELSE froc_curve(<<>>)
    ELSE froc_curve(ROCThresholds(acc))

\* froc_lesion_fm_img <= self.fm_img_ths, line 310
PartialIdx(fm) == [k \in 1..Len(fm) |-> fm[k][1] * 100 <= FmImgThs * fm[k][2]]

\* OD_AUCROC.score(), lines 304-342
OD_AUCROC_score ==
    /\ pc \in {"constructed", "processed"}
    /\ \E emptyRaises \in BOOLEAN :
          LET lesion == CurveOf(roc_lesion, emptyRaises)
              image == CurveOf(roc_image, emptyRaises)
              noloc == CurveOf(roc_image_noloc, emptyRaises)
              failed == lesion.raised \/ image.raised \/ noloc.raised
          IN  /\ result' = [status |-> IF failed THEN "error" ELSE "ok",
                            froc_lesion_fm_img |-> IF failed THEN <<>> ELSE lesion.fm,
                            partial_fm_img_idx |->
                                IF failed THEN <<>> ELSE PartialIdx(lesion.fm)]
              /\ pc' = IF failed THEN "score_error" ELSE "scored"
    /\ UNCHANGED <<tie, iou_thres, dims, iou, matches, cmVars, nc, malignant_cls_th,
                   roc_lesion, roc_image, roc_image_noloc, markers_in_normal_image,
                   detection_probs, nl, hist, apVars>>

NextROC == OD_AUCROC_init \/ OD_AUCROC_process_batch \/ OD_AUCROC_score

SpecROC == InitROC /\ [][NextROC]_vars

----------------------------------------------------------------------------
(* Properties of OD_AUCROC *)

Last(q) == q[Len(q)]

\* indices of the processed images without malignant labels
NormalImages == {i \in 1..Len(hist) : hist[i].nl = 0}

\* the last call was on an image with malignant detections and no malignant label
NegativeWithDetections ==
    pc = "processed" /\ nl = 0 /\ Len(detection_probs) > 0

\* the last call was on an image with malignant detections and malignant labels
PositiveWithDetections ==
    pc = "processed" /\ nl > 0 /\ Len(detection_probs) > 0

\* thresholds at which the FROC curve is probed
ProbeThresholds == {0} \cup ProbVals

\* avg_fm_image of froc_curve at threshold t, as <<markers above t, n_normal_images>>
FmAt(t) == froc_curve(<<t>>).fm[1]

\* per image, the number of its malignant detection scores above t
ScoresAbove(t) ==
    [i \in 1..Len(hist) |->
        Cardinality({k \in 1..Len(hist[i].probs) : hist[i].probs[k] > t})]

\* C4 as stated: an image with malignant detections and no malignant label
\* records exactly one marker, its maximum detection score; so the average
\* false markers per normal image at any threshold t is the number of
\* label-free images whose maximum score exceeds t over the number of
\* label-free images, and never exceeds 1.
C4_OneMarkerPerNormalImage ==
    NegativeWithDetections =>
        /\ Last(markers_in_normal_image) = <<TorchMax(detection_probs)>>
        /\ \A t \in ProbeThresholds :
              /\ FmAt(t) = <<Cardinality({i \in NormalImages : ScoresAbove(t)[i] > 0}),
                             Cardinality(NormalImages)>>
              /\ FmAt(t)[1] <= FmAt(t)[2]

\* C4 amended: an image with malignant detections and no malignant label
\* records one list element holding the scores of all its malignant
\* detections; so the average false markers per normal image at any threshold
\* t is the number of malignant detections of label-free images whose score
\* exceeds t over the number of label-free images (it can exceed 1).
C4_AllMarkersPerNormalImage ==
    NegativeWithDetections =>
        /\ Len(markers_in_normal_image) = Cardinality(NormalImages)
        /\ Last(markers_in_normal_image) = Last(hist).probs
        /\ \A t \in ProbeThresholds :
              FmAt(t) = <<SumOver(ScoresAbove(t), NormalImages),
                          Cardinality(NormalImages)>>

\* two normal images, the last with two detections; more than one false
\* marker per normal image at some threshold
C4_Witness ==
    /\ NegativeWithDetections
    /\ Len(detection_probs) = 2
    /\ Cardinality(NormalImages) = 2
    /\ \E t \in ProbeThresholds : FmAt(t)[1] > FmAt(t)[2]

\* the lesion-level scores of the labels of the last call
LesionScores == SubSeq(roc_lesion, Len(roc_lesion) - nl + 1, Len(roc_lesion))

\* C5 as stated: on an image with malignant detections and labels the
\* matching is one-to-one: no detection is the match of two lesions and no
\* lesion of two detections, so the lesions with a non-zero lesion-level score
\* are at most as many as the detections.
C5_OneToOneMatching ==
    PositiveWithDetections =>
        /\ Injective(MatchSet)
        /\ Cardinality({l \in 1..nl : LesionScores[l][1] > 0}) <= Len(detection_probs)

\* C5 amended: on an image with malignant detections and labels the matching
\* is every label/detection pair whose IoU is above the threshold, with no
\* dedup: each lesion is credited the best score among all detections that
\* overlap it above the threshold (0 if none), so one detection can credit
\* several lesions; the image-localized score is the best lesion score.
C5_AllPairsMatching ==
    PositiveWithDetections =>
        /\ MatchSet = {<<p[1], p[2], iou[p]>> : p \in {q \in DOMAIN iou : iou[q] > iou_thres}}
        /\ \A l \in 1..nl :
              LesionScores[l] =
                <<Max({0} \cup {detection_probs[d] : d \in
                        {e \in 1..Len(detection_probs) : iou[<<l, e>>] > iou_thres}}),
                  1>>
        /\ Last(roc_image) = <<Max({0} \cup {LesionScores[l][1] : l \in 1..nl}), 1>>

\* one detection overlaps two lesions and both get its score
C5_Witness ==
    /\ PositiveWithDetections
    /\ nl = 2
    /\ Len(detection_probs) = 1
    /\ \A l \in 1..nl : LesionScores[l][1] = detection_probs[1]

\* C6: score() on a freshly constructed engine ends in a defined result, not
\* in an exception.
C6_FreshScoreDefined ==
    (pc \in {"scored", "score_error"} /\ hist = <<>>) => result.status = "ok"

\* C7: construction raises exactly when nc is not 1, 2 or 4, and then no
\* process_batch or score call ever runs; nc = 1, 2, 4 give the malignant
\* class threshold 0, 1, 2.
C7_InvalidNcRaises ==
    pc # "new" =>
        /\ (nc \notin {1, 2, 4}) <=> (pc = "ValueError")
        /\ pc = "ValueError" =>
              /\ hist = <<>>
              /\ result.status = "none"
              /\ roc_lesion = <<>> /\ roc_image = <<>> /\ roc_image_noloc = <<>>
              /\ markers_in_normal_image = <<>>
        /\ nc = 1 => malignant_cls_th = 0
        /\ nc = 2 => malignant_cls_th = 1
        /\ nc = 4 => malignant_cls_th = 2

\* construction with three classes raised
C7_Witness == pc = "ValueError" /\ nc = 3

Count(q, P(_)) == Cardinality({k \in 1..Len(q) : P(q[k])})

\* C10: after k process_batch calls the two image accumulators hold k pairs,
\* the i-th labelled 1 iff the i-th image had a malignant label; the lesion
\* accumulator holds one label-0 pair per image without malignant labels and
\* one label-1 pair per malignant label; markers_in_normal_image has one
\* element per image without malignant labels.
C10_AccumulatorSizes ==
    /\ Len(roc_image) = Len(hist)
    /\ Len(roc_image_noloc) = Len(hist)
    /\ \A i \in 1..Len(hist) :
          /\ roc_image[i][2] = (IF hist[i].nl > 0 THEN 1 ELSE 0)
          /\ roc_image_noloc[i][2] = (IF hist[i].nl > 0 THEN 1 ELSE 0)
    /\ Count(roc_lesion, LAMBDA e : e[2] = 0) = Cardinality(NormalImages)
    /\ Count(roc_lesion, LAMBDA e : e[2] = 1) =
          SumOver([i \in 1..Len(hist) |-> hist[i].nl], 1..Len(hist))
    /\ Len(roc_lesion) = Count(roc_lesion, LAMBDA e : e[2] = 0)
                          + Count(roc_lesion, LAMBDA e : e[2] = 1)
    /\ Len(markers_in_normal_image) = Cardinality(NormalImages)

\* two images: one with two malignant labels, one with detections and none
C10_Witness ==
    /\ Len(hist) = MaxImages
    /\ \E i \in 1..Len(hist) : hist[i].nl = 2
    /\ \E i \in 1..Len(hist) : hist[i].nl = 0 /\ hist[i].probs # <<>>

----------------------------------------------------------------------------
(* Properties of the confusion matrix *)

Total(mx) == SumOver(mx, DOMAIN mx)

\* the surviving detections of the last call that no match claims
Unclaimed ==
    {d \in 1..Len(detection_classes) : \A k \in 1..Len(matches) : matches[k][2] # d}

\* what the last call has to add to a cell: 1 to [true class][predicted
\* class] for a matched label, 1 to [background row][true class] for any
\* other label, 1 to [predicted class][background column] for an unclaimed
\* detection
ExpectedDelta(cell) ==
    Cardinality({l \in 1..Len(gt_classes) :
        \/ \E k \in 1..Len(matches) :
              /\ matches[k][1] = l
              /\ cell = <<gt_classes[l], detection_classes[matches[k][2]]>>
        \/ /\ \A k \in 1..Len(matches) : matches[k][1] # l
           /\ cell = <<NC, gt_classes[l]>>})
    + Cardinality({d \in Unclaimed : cell = <<detection_classes[d], NC>>})

\* C1: every process_batch call raises the sum of the matrix by the number of
\* labels plus the number of surviving detections no match claims, each label
\* and each unclaimed detection adding 1 to its cell.
C1_SumGrowsByLabelsAndUnclaimed ==
    [][fed' # fed =>
        /\ Total(matrix') = Total(matrix) + Len(gt_classes') + Cardinality(Unclaimed')
        /\ \A cell \in DOMAIN matrix : matrix'[cell] = matrix[cell] + ExpectedDelta(cell)'
      ]_vars

\* C8: two aggregators given the same images, one call per image, in any two
\* orders hold the same matrix.
C8_OrderIndependent ==
    Range(orderB) = 1..Len(fed) => matrixB = matrix

\* two different images, the second aggregator took them in reverse order
C8_Witness ==
    /\ Len(fed) = MaxImages
    /\ Range(orderB) = 1..Len(fed)
    /\ fed[1] # fed[2]
    /\ orderB[1] = 2
    /\ \E c \in DOMAIN matrix : c[1] < NC /\ c[2] < NC /\ c[1] # c[2] /\ matrix[c] > 0

----------------------------------------------------------------------------
(* ap_per_class and compute_ap, in exact arithmetic: a recall is kept in     *)
(* units of 1 / (APGrid * n_l), a precision in units of 1 / P with P a       *)
(* common multiple of the prediction counts; the 1e-16 of line 67 is below   *)
(* the resolution of a double next to n_l >= 1.                              *)

RECURSIVE Fact(_)
Fact(n) == IF n <= 1 THEN 1 ELSE n * Fact(n - 1)

RECURSIVE SumTo(_, _)
SumTo(q, k) == IF k = 0 THEN 0 ELSE q[k] + SumTo(q, k - 1)

\* the false positives in the numerator
Precision_OfFalsePositives(tpc, fpc, P) == (P * fpc) \div (tpc + fpc)

\* tpc / (tpc + fpc), line 71, in units 1 / P
Precision(tpc, fpc, P) == (P * tpc) \div (tpc + fpc)

\* tpc / (n_l + 1e-16), line 67, in units 1 / (APGrid * n_l)
Recall(tpc) == tpc * APGrid

\* q.cumsum(0)
Cumsum(q) == [k \in 1..Len(q) |-> SumTo(q, k)]

\* np.argsort(-conf): positions by descending confidence; equal confidences
\* keep input order under a stable sort, the reverse otherwise
ConfBefore(cf, i, j, kind) ==
    \/ cf[i] > cf[j]
    \/ /\ cf[i] = cf[j]
       /\ IF kind = "stable" THEN i < j ELSE i > j

ArgsortByConf(cf, kind) ==
    [k \in 1..Len(cf) |->
        CHOOSE i \in 1..Len(cf) :
            Cardinality({j \in 1..Len(cf) : ConfBefore(cf, j, i, kind)}) = k - 1]

\* np.flip(np.maximum.accumulate(np.flip(mpre)))
Envelope(mpre) ==
    [k \in 1..Len(mpre) |-> Max({mpre[i] : i \in k..Len(mpre)})]

\* np.interp(x, mrec, mpre) times W: past the last point the last value, else
\* linear between the last point at or below x and the next one
Interp(x, mrec, mpre, W) ==
    IF x >= mrec[Len(mrec)] THEN mpre[Len(mpre)] * W
    ELSE LET j == Max({i \in 1..Len(mrec) : mrec[i] <= x})
             w == mrec[j + 1] - mrec[j]
         IN  ((mpre[j] * w + (mpre[j + 1] - mpre[j]) * (x - mrec[j])) * W) \div w

\* np.trapz(y, x) over the grid, times 2 * APGrid: y[j] is the value at x_j
RECURSIVE Trapz(_, _)
Trapz(y, j) ==
    IF j = APGrid THEN 0 ELSE y[j] + y[j + 1] + Trapz(y, j + 1)

\* compute_ap(recall, precision), lines 92-117, method "interp".
\* recall in units 1 / (APGrid * n_l), precision in units 1 / P;
\* returns the fraction <<numerator, denominator>>
compute_ap(recall, precision, n_l, P) ==
    LET mrec == <<0>> \o recall \o <<recall[Len(recall)] + n_l>>
        mpre == Envelope(<<P>> \o precision \o <<0>>)
        W == APGrid * n_l
        y == [j \in 0..APGrid |-> Interp(j * n_l, mrec, mpre, W)]
    IN  <<Trapz(y, 0), 2 * APGrid * P * W>>

\* lines 54-78 for the class c
APRow(c, tps, cf, pcls, tcls, kind) ==
    LET order == ArgsortByConf(cf, kind)
        sel == SelectSeq(order, LAMBDA k : pcls[k] = c)
        n_l == Cardinality({k \in 1..Len(tcls) : tcls[k] = c})
        n_p == Len(sel)
        P == Fact(n_p)
    IN  [j \in 1..NumCols |->
            IF n_p = 0 \/ n_l = 0 THEN <<0, 1>>
            ELSE LET tpc == Cumsum([k \in 1..n_p |-> tps[sel[k]][j]])
                     fpc == Cumsum([k \in 1..n_p |-> 1 - tps[sel[k]][j]])
                     recall == [k \in 1..n_p |-> Recall(tpc[k])]
                     precision == [k \in 1..n_p |-> Precision(tpc[k], fpc[k], P)]
                 IN  compute_ap(recall, precision, n_l, P)]

InitAP ==
    /\ tie \in SortKinds
    /\ pc = "start"
    /\ iou_thres = 0
    /\ dims = <<0, 0>>
    /\ iou = <<>>
    /\ matches = <<>>
    /\ CMUnused
    /\ ROCUnused
    /\ \E n \in 0..MaxPreds :
          /\ tp \in [1..n -> [1..NumCols -> {0, 1}]]
          /\ pred_conf \in [1..n -> APConfVals]
          /\ pred_cls \in [1..n -> APClasses]
    /\ target_cls \in SeqsUpTo(APClasses, MaxTargets)
    /\ unique_classes = <<>>
    /\ ap = <<>>

\* ap_per_class(tp, conf, pred_cls, target_cls), lines 29-89
ap_per_class ==
    /\ pc = "start"
    /\ unique_classes' = SetToSeqAsc(Range(target_cls))
    /\ ap' = [ci \in 1..Len(unique_classes') |->
                APRow(unique_classes'[ci], tp, pred_conf, pred_cls, target_cls, tie)]
    /\ pc' = "done"
    /\ UNCHANGED <<tie, iou_thres, dims, iou, matches, cmVars, rocVars,
                   tp, pred_conf, pred_cls, target_cls>>

NextAP == ap_per_class

SpecAP == InitAP /\ [][NextAP]_vars

----------------------------------------------------------------------------
(* Properties of ap_per_class *)

PredsOf(c) == {k \in 1..Len(pred_cls) : pred_cls[k] = c}
LabelsOf(c) == {k \in 1..Len(target_cls) : target_cls[k] = c}

\* every prediction of class c is a true positive in every column, every
\* label of class c is detected, confidences strictly decreasing
PerfectOn(c) ==
    /\ PredsOf(c) # {}
    /\ Cardinality(PredsOf(c)) = Cardinality(LabelsOf(c))
    /\ \A k \in PredsOf(c) : \A j \in 1..NumCols : tp[k][j] = 1
    /\ \A k \in PredsOf(c), m \in PredsOf(c) : k < m => pred_conf[k] > pred_conf[m]

====
